---- MODULE Spec2Model ----
(***************************************************************************)
(* A model of crate_shuffle.py: the tag classifier, the path resolver, the *)
(* transcode worker with its permit pool, and the orchestrator main.       *)
(*                                                                         *)
(* Python strings are modelled as tuples of one-character strings, so that *)
(* lower(), title(), strip(), split() and replace() are computed the way   *)
(* the interpreter computes them.                                          *)
(***************************************************************************)
EXTENDS Integers, Sequences, FiniteSets, TLC

\* ------------------------------------------------------------------------
\* Bounds of the model
\* ------------------------------------------------------------------------
MaxFiles == 2      \* longest library drawn freely from the catalogue
MaxGenreLen == 3   \* longest genre text drawn for the classifier
MaxTokens == 2     \* most comma-separated tokens in a drawn comment
MaxTagLen == 5     \* longest tag text drawn for the tag repair

\* ------------------------------------------------------------------------
\* Python str primitives
\* ------------------------------------------------------------------------
Lo == <<"a","b","c","d","e","f","g","h","i","j","k","l","m",
        "n","o","p","q","r","s","t","u","v","w","x","y","z">>
Up == <<"A","B","C","D","E","F","G","H","I","J","K","L","M",
        "N","O","P","Q","R","S","T","U","V","W","X","Y","Z">>
Digits == {"0","1","2","3","4","5","6","7","8","9"}
Whitespace == {" ", "\t", "\n", "\r"}

IsUpper(c) == \E i \in 1..26 : Up[i] = c
IsLower(c) == \E i \in 1..26 : Lo[i] = c
IsCased(c) == IsUpper(c) \/ IsLower(c)
LowerChar(c) == IF IsUpper(c) THEN Lo[CHOOSE i \in 1..26 : Up[i] = c] ELSE c
UpperChar(c) == IF IsLower(c) THEN Up[CHOOSE i \in 1..26 : Lo[i] = c] ELSE c

\* str.lower()
Lower(s) == [i \in 1..Len(s) |-> LowerChar(s[i])]

\* str.title(): a cased character is upper-cased after an uncased one (or at
\* the start) and lower-cased after a cased one.
Title(s) == [i \in 1..Len(s) |->
               IF i > 1 /\ IsCased(s[i-1]) THEN LowerChar(s[i])
                                           ELSE UpperChar(s[i])]

\* str.strip()
Strip(s) ==
  IF \A i \in 1..Len(s) : s[i] \in Whitespace THEN <<>>
  ELSE LET a == CHOOSE i \in 1..Len(s) :
                  /\ s[i] \notin Whitespace
                  /\ \A j \in 1..(i-1) : s[j] \in Whitespace
           b == CHOOSE i \in 1..Len(s) :
                  /\ s[i] \notin Whitespace
                  /\ \A j \in (i+1)..Len(s) : s[j] \in Whitespace
       IN SubSeq(s, a, b)

\* s[:n] and s[n:] with a 0-based n, as Python slices them
Take(s, n) == SubSeq(s, 1, IF n > Len(s) THEN Len(s) ELSE n)
Drop(s, n) == SubSeq(s, n + 1, Len(s))

StartsWith(s, p) == Len(p) <= Len(s) /\ SubSeq(s, 1, Len(p)) = p

\* str.split(sep) for a one-character sep: the list of fields
RECURSIVE Split(_, _)
Split(s, sep) ==
  IF \A i \in 1..Len(s) : s[i] # sep THEN <<s>>
  ELSE LET p == CHOOSE i \in 1..Len(s) :
                  s[i] = sep /\ \A j \in 1..(i-1) : s[j] # sep
       IN <<SubSeq(s, 1, p - 1)>> \o Split(Drop(s, p), sep)

\* s.split(sep)[-1]
LastField(s, sep) == LET f == Split(s, sep) IN f[Len(f)]

\* str.replace(old, new), old non-empty: every non-overlapping occurrence,
\* scanning from the left
RECURSIVE Replace(_, _, _)
Replace(s, old, new) ==
  IF Len(s) = 0 THEN <<>>
  ELSE IF StartsWith(s, old) THEN new \o Replace(Drop(s, Len(old)), old, new)
  ELSE <<s[1]>> \o Replace(Tail(s), old, new)

\* ------------------------------------------------------------------------
\* posixpath
\* ------------------------------------------------------------------------
Slash == "/"

\* os.path.join(a, b)
PathJoin(a, b) ==
  IF Len(b) > 0 /\ b[1] = Slash THEN b
  ELSE IF Len(a) = 0 \/ a[Len(a)] = Slash THEN a \o b
  ELSE a \o <<Slash>> \o b

\* os.path.basename(p)
Basename(p) == LastField(p, Slash)

\* ------------------------------------------------------------------------
\* String literals of the program
\* ------------------------------------------------------------------------
S_mp3 == <<"m","p","3">>
S_flac == <<"f","l","a","c">>
S_ogg == <<"o","g","g">>
S_dotmp3 == <<".","m","p","3">>
S_Unknown == <<"U","n","k","n","o","w","n">>
S_l0 == <<"l","0">>
S_NoComment == <<"N","o"," ","C","o","m","m","e","n","t">>

\* ------------------------------------------------------------------------
\* Tag reader (mutagen) and classifier
\* ------------------------------------------------------------------------
\* A metadata view maps each key that is present to [list, text]: list says
\* whether the value is a Python list (a Vorbis comment value) or a frame
\* object (an ID3 frame), text is its sequence of strings.
EmptyView == [k \in {} |-> [list |-> TRUE, text |-> <<>>]]
None == [some |-> FALSE, view |-> EmptyView]
Some(v) == [some |-> TRUE, view |-> v]

Ok(s) == [raised |-> FALSE, val |-> s]
Raised == [raised |-> TRUE, val |-> <<>>]

Min(S) == CHOOSE x \in S : \A y \in S : x <= y

\* get_audiofile(filename), for an entry of the source tree: the reader is
\* chosen by the lower-cased text after the last dot of the path
get_audiofile(entry) ==
  LET ext == Lower(LastField(entry.path, "."))
  IN IF ext = S_mp3 \/ ext = S_flac \/ ext = S_ogg THEN Some(entry.tags)
     ELSE None

GenreKeys == <<"genre", "TCON">>
CommentKeys == <<"description", "COMM::Pur", "TCON">>

\* the tail of get_genre: genre.split(',')[0].strip()
FirstGenre_Whole(genre) == Strip(genre)
FirstGenre(genre) == Strip(Split(genre, ",")[1])

get_genre(audiofile) ==
  IF ~audiofile.some THEN Ok(S_Unknown)
  ELSE LET v == audiofile.view
           cand == {i \in 1..Len(GenreKeys) :
                      GenreKeys[i] \in DOMAIN v /\ v[GenreKeys[i]].list}
       IN IF cand = {} THEN Ok(FirstGenre(S_Unknown))
          ELSE LET text == v[GenreKeys[Min(cand)]].text
               IN IF Len(text) = 0 THEN Raised   \* IndexError
                  ELSE Ok(FirstGenre(
                         Replace(Strip(Title(text[1])), <<"/">>, <<",">>)))

\* re.compile(r'^l\d$').match(t): the matched text, or <<>> for no match
\* ($ also matches before one trailing newline)
LevelMatch_Prefix(t) ==
  IF Len(t) >= 2 /\ t[1] = "l" /\ t[2] \in Digits
  THEN SubSeq(t, 1, 2) ELSE <<>>
LevelMatch(t) ==
  IF /\ Len(t) \in {2, 3}
     /\ t[1] = "l" /\ t[2] \in Digits
     /\ (Len(t) = 3 => t[3] = "\n")
  THEN SubSeq(t, 1, 2) ELSE <<>>

\* re.compile(r'^l\d-l\d$').match(t)
MultilevelMatch(t) ==
  IF /\ Len(t) \in {5, 6}
     /\ t[1] = "l" /\ t[2] \in Digits /\ t[3] = "-"
     /\ t[4] = "l" /\ t[5] \in Digits
     /\ (Len(t) = 6 => t[6] = "\n")
  THEN SubSeq(t, 1, 5) ELSE <<>>

\* the token loop of get_level
RECURSIVE ScanTokens(_)
ScanTokens(tokens) ==
  IF Len(tokens) = 0 THEN S_Unknown
  ELSE LET t == Strip(Head(tokens))
       IN IF LevelMatch(t) # <<>> THEN LevelMatch(t)
          ELSE IF MultilevelMatch(t) # <<>> THEN MultilevelMatch(t)
          ELSE ScanTokens(Tail(tokens))

\* the key loop of get_level: the first present key whose value has a first
\* element (an IndexError moves on to the next key)
Comment(v) ==
  LET cand == {i \in 1..Len(CommentKeys) :
                 CommentKeys[i] \in DOMAIN v /\ Len(v[CommentKeys[i]].text) > 0}
  IN IF cand = {} THEN S_NoComment ELSE v[CommentKeys[Min(cand)]].text[1]

get_level(audiofile) ==
  IF ~audiofile.some THEN S_l0
  ELSE ScanTokens(Split(Comment(audiofile.view), ","))

get_destination_subfolder(audiofile) ==
  LET genre == get_genre(audiofile)
  IN IF genre.raised THEN Raised
     ELSE Ok(PathJoin(genre.val, get_level(audiofile)))

\* ------------------------------------------------------------------------
\* Tag repair
\* ------------------------------------------------------------------------
fix_ffmpeg_tag(tag_list) ==
  LET tag == tag_list[1]
      mid == Len(tag) \div 2
  IN IF Take(tag, mid) = Drop(tag, mid + 1) THEN <<Take(tag, mid)>>
     ELSE tag_list

\* ------------------------------------------------------------------------
\* Path resolution in main
\* ------------------------------------------------------------------------
\* ext = base.split('.')[-1].lower()
Ext(f) == Lower(LastField(Basename(f), "."))

\* the branch condition "ext != 'mp3' and transcode"
NeedsTranscode(f, transcode) == Ext(f) # S_mp3 /\ transcode

\* dest_path = os.path.join(destination, sub_folder)
DestPath(destination, sub_folder) == PathJoin(destination, sub_folder)

\* dest_fname, after the extension rewrite
DestFname(destination, sub_folder, f, transcode) ==
  LET plain == PathJoin(DestPath(destination, sub_folder), Basename(f))
  IN IF NeedsTranscode(f, transcode)
     THEN Replace(plain, <<".">> \o Ext(f), S_dotmp3)
     ELSE plain

\* ------------------------------------------------------------------------
\* Program constants
\* ------------------------------------------------------------------------
THREADPOOL_SIZE == 3

\* ------------------------------------------------------------------------
\* Inputs: the destination root, the files the walk yields, the trees the
\* destination can start as
\* ------------------------------------------------------------------------
Destination == <<"/","o">>

P_Jazz == <<"/","o","/","J","a","z","z">>
P_Jazz_l2 == <<"/","o","/","J","a","z","z","/","l","2">>
P_Unknown == <<"/","o","/","U","n","k","n","o","w","n">>
P_Unknown_l0 == <<"/","o","/","U","n","k","n","o","w","n","/","l","0">>
P_Unknown_l0_c == <<"/","o","/","U","n","k","n","o","w","n","/","l","0","/","c",".","j","p","g">>
P_Unknown_l3 == <<"/","o","/","U","n","k","n","o","w","n","/","l","3">>
P_Jazz_l2_a == <<"/","o","/","J","a","z","z","/","l","2","/","a",".","m","p","3">>

\* Vorbis comments of a tagged track: genre=jazz, description="l2, other"
JazzTags ==
  [genre |-> [list |-> TRUE, text |-> << <<"j","a","z","z">> >>],
   description |-> [list |-> TRUE, text |-> << <<"l","2",","," ","o","t","h","e","r">> >>]]

\* ID3 frames of an mp3: the values are frame objects, not lists
Id3Tags ==
  ("TCON" :> [list |-> FALSE, text |-> << <<"j","a","z","z">> >>]) @@
  ("COMM::Pur" :> [list |-> FALSE, text |-> << <<"l","3">> >>])

Entry(path, kind, tags) == [path |-> path, kind |-> kind, tags |-> tags]

\* What GlobDirectoryWalker(library, "*") can yield: regular files and, as
\* "*" matches every name, directories as well.
Catalogue ==
  { Entry(<<"/","l","/","a",".","m","p","3">>, "file", Id3Tags),
    Entry(<<"/","l","/","a",".","f","l","a","c">>, "file", JazzTags),
    Entry(<<"/","l","/","s","/","a",".","o","g","g">>, "file", JazzTags),
    Entry(<<"/","l","/","B",".","F","L","A","C">>, "file", JazzTags),
    Entry(<<"/","l","/","c",".","j","p","g">>, "file", EmptyView),
    Entry(<<"/","l","/","s">>, "dir", EmptyView) }

TrackNo == <<"1","2","3","4","5","6","7","8","9">>
Track(k) == Entry(<<"/","l","/">> \o <<TrackNo[k]>> \o <<".","f","l","a","c">>, "file", JazzTags)

\* an album with one track more than the pool has permits
Album == [k \in 1..(THREADPOOL_SIZE + 1) |-> Track(k)]

\* the walk yields a path once
SeqsUpTo(S, n) ==
  {q \in UNION {[1..k -> S] : k \in 0..n} :
     \A i, j \in 1..Len(q) : q[i] = q[j] => i = j}

Libraries == SeqsUpTo(Catalogue, MaxFiles) \cup {Album}

Tree(dirs, files) ==
  [p \in dirs \cup files |-> IF p \in dirs THEN "dir" ELSE "file"]

\* the destination starts empty, or with a file where the genre directory
\* belongs, or with earlier output: a track already transcoded, a file
\* where a level directory belongs, a directory where a copy would go
InitialTrees ==
  { Tree({Destination}, {}),
    Tree({Destination}, {P_Jazz}),
    Tree({Destination, P_Jazz, P_Jazz_l2, P_Unknown, P_Unknown_l0,
          P_Unknown_l0_c},
         {P_Jazz_l2_a, P_Unknown_l3}) }

\* ------------------------------------------------------------------------
\* Filesystem
\* ------------------------------------------------------------------------
exists(t, p) == p \in DOMAIN t
isdir(t, p) == p \in DOMAIN t /\ t[p] = "dir"
isfile(t, p) == p \in DOMAIN t /\ t[p] = "file"

\* the proper ancestors of p: its prefixes that end before a separator
Ancestors(p) == {SubSeq(p, 1, i - 1) : i \in {j \in 2..Len(p) : p[j] = Slash}}

\* os.makedirs(p) raises when p exists or a component of p is not a
\* directory; otherwise it creates p and every missing ancestor
MakedirsRaises(t, p) ==
  exists(t, p) \/ \E a \in Ancestors(p) : exists(t, a) /\ ~isdir(t, a)

Extend(t, ps, kind) ==
  [p \in DOMAIN t \cup ps |-> IF p \in ps THEN kind ELSE t[p]]

makedirs(t, p) == Extend(t, {p} \cup {a \in Ancestors(p) : ~exists(t, a)}, "dir")

\* a file written at p (open(p, 'wb') or the encoder's output)
WriteFile(t, p) == Extend(t, {p}, "file")

\* ------------------------------------------------------------------------
\* State
\* ------------------------------------------------------------------------
VARIABLES
  library,     \* the paths the walk yields, in order
  transcode, overwrite, dryrun,   \* the flags of main
  fs,          \* the destination tree: path -> "dir" | "file"
  fs0,         \* the destination tree before the first run
  resolved,    \* per library index, what main computes from the entry
  pc,          \* main: "walk", "dispatch", "join", "done", "raised", "idle"
  idx,         \* position of the walk in library
  threads,     \* the started transcode threads, in start order, each with
               \* its source index, dest, position and encoder exit code
  sema,        \* free permits of pool_sema
  joined,      \* how many threads the join loop has joined
  writes,      \* filesystem writes of the current run
  invoked,     \* encoder invocations of the current run, per library index
  outcome,     \* what main did with each library index in the current run
  run,         \* 1 for the first run of main, 2 for a rerun
  prevFailed,  \* an encoder invocation of the earlier run exited non-zero
  audio,       \* classifier: the audiofile argument
  cpc,         \* classifier: "idle", "input", "done"
  genreOut,    \* classifier: result of get_genre
  levelOut,    \* classifier: result of get_level
  subOut,      \* classifier: result of get_destination_subfolder
  destOut,     \* classifier: the dest_fname main builds from subOut
  tagIn,       \* tag repair: the tag_list argument
  tpc,         \* tag repair: "idle", "input", "done"
  tagOut,      \* tag repair: the list returned
  pattern,     \* walker: self.pattern
  broken,      \* walker: the directories os.listdir raises OSError for
  stack,       \* walker: self.stack
  files,       \* walker: self.files
  index,       \* walker: self.index
  directory,   \* walker: self.directory (<<>> before the first pop)
  wpc,         \* walker: "idle", "iter", "ended"
  yielded,     \* walker: the paths returned so far, in order
  listed,      \* walker: the directories os.listdir has listed
  failed       \* walker: the directories os.listdir has raised for

flagVars == <<library, transcode, overwrite, dryrun, fs0, resolved>>
mainVars == <<fs, pc, idx, threads, sema, joined, writes, invoked, outcome,
              run, prevFailed>>
classVars == <<audio, cpc, genreOut, levelOut, subOut, destOut>>
tagVars == <<tagIn, tpc, tagOut>>
walkVars == <<pattern, broken, stack, files, index, directory, wpc, yielded,
              listed, failed>>
vars == <<flagVars, mainVars, classVars, tagVars, walkVars>>

Inside == {"guarded", "encoding", "tagging"}
Terminal == {"returned", "assert", "failed", "succeeded", "tagerror"}

Event(op, src, path) == [op |-> op, src |-> src, path |-> path]

\* ------------------------------------------------------------------------
\* main: the loop body up to the first existence check (lines 215-238)
\* ------------------------------------------------------------------------
\* "sub_folder is None": get_destination_subfolder returns os.path.join(..),
\* which is a str for every audiofile, None included
SubFolderIsNone(sub_folder) == FALSE

\* "os.path.isfile(dest_path)", tested when dest_path is not a directory
IsConflict(t, dest_path) == isfile(t, dest_path)

\* the existence check left out
SkipExisting_Never(t, dest_fname, ow) == FALSE

\* "os.path.isfile(dest_fname) and not overwrite"
SkipExisting(t, dest_fname, ow) == isfile(t, dest_fname) /\ ~ow

\* what lines 216-234 compute for an entry the walk yields: sub_folder,
\* dest_path, dest_fname and the branch condition of line 241. They depend
\* on the entry and the transcode flag alone
Resolve(e, t) ==
  LET sub_folder == get_destination_subfolder(get_audiofile(e))
  IN [sub_folder |-> sub_folder,
      dest_path |-> IF sub_folder.raised THEN <<>>
                    ELSE DestPath(Destination, sub_folder.val),
      dest_fname |-> IF sub_folder.raised THEN <<>>
                     ELSE DestFname(Destination, sub_folder.val, e.path, t),
      needs_transcode |-> NeedsTranscode(e.path, t)]

\* the loop body reads them from resolved, which holds Resolve of every
\* library entry from the start
ResolvedOf(i) == resolved[i]

SubFolderOf(i) == ResolvedOf(i).sub_folder
DestPathOf(i) == ResolvedOf(i).dest_path
DestFnameOf(i) == ResolvedOf(i).dest_fname
NeedsTranscodeOf(i) == ResolvedOf(i).needs_transcode

Continue(what) ==
  /\ outcome' = [outcome EXCEPT ![idx] = what]
  /\ idx' = idx + 1
  /\ pc' = "walk"

Raise(what) ==
  /\ outcome' = [outcome EXCEPT ![idx] = what]
  /\ idx' = idx
  /\ pc' = "raised"

MainStep ==
  /\ pc = "walk"
  /\ idx <= Len(library)
  /\ UNCHANGED <<threads, sema, joined, invoked, run, prevFailed>>
  /\ UNCHANGED <<flagVars, classVars, tagVars, walkVars>>
  /\ LET sub_folder == SubFolderOf(idx) IN
     IF sub_folder.raised
     THEN Raise("raised-classify") /\ UNCHANGED <<fs, writes>>
     ELSE IF SubFolderIsNone(sub_folder)
     THEN Continue("skip-unsupported") /\ UNCHANGED <<fs, writes>>
     ELSE
       LET dest_path == DestPathOf(idx)
           dest_fname == DestFnameOf(idx)
           missing == ~isdir(fs, dest_path)
       IN IF missing /\ IsConflict(fs, dest_path)
          THEN Continue("skip-conflict") /\ UNCHANGED <<fs, writes>>
          ELSE IF missing /\ MakedirsRaises(fs, dest_path)
          THEN Raise("raised-makedirs") /\ UNCHANGED <<fs, writes>>
          ELSE
            LET fs1 == IF missing THEN makedirs(fs, dest_path) ELSE fs
            IN /\ fs' = fs1
               /\ writes' = IF missing
                            THEN writes \cup {Event("mkdir", idx, dest_path)}
                            ELSE writes
               /\ IF SkipExisting(fs1, dest_fname, overwrite)
                  THEN Continue("skip-exists")
                  ELSE pc' = "dispatch" /\ UNCHANGED <<idx, outcome>>

\* ------------------------------------------------------------------------
\* main: thread start or copy (lines 240-255)
\* ------------------------------------------------------------------------
\* the try block: os.stat(dest_fname) succeeds and overwrite is off
StatSkips(t, dest_fname, ow) == exists(t, dest_fname) /\ ~ow

\* shutil.copyfile opens the source for reading and the destination for
\* writing; either raises IsADirectoryError on a directory
CopyRaises(t, entry, dest_fname) == entry.kind = "dir" \/ isdir(t, dest_fname)

\* the thread record keeps, in seen, whether the destination existed when
\* the thread was started; no code reads it
MainDispatch ==
  /\ pc = "dispatch"
  /\ UNCHANGED <<sema, joined, invoked, run, prevFailed>>
  /\ UNCHANGED <<flagVars, classVars, tagVars, walkVars>>
  /\ LET dest_fname == DestFnameOf(idx)
     IN IF NeedsTranscodeOf(idx)
        THEN /\ threads' = Append(threads,
                                   [src |-> idx, dest |-> dest_fname,
                                    st |-> "pending", result |-> -1,
                                    seen |-> exists(fs, dest_fname)])
             /\ Continue("dispatched")
             /\ UNCHANGED <<fs, writes>>
        ELSE /\ UNCHANGED threads
             /\ IF StatSkips(fs, dest_fname, overwrite)
                THEN Continue("skip-stat") /\ UNCHANGED <<fs, writes>>
                ELSE IF dryrun
                THEN Continue("dry-copy") /\ UNCHANGED <<fs, writes>>
                ELSE IF CopyRaises(fs, library[idx], dest_fname)
                THEN Raise("raised-copy") /\ UNCHANGED <<fs, writes>>
                ELSE /\ fs' = WriteFile(fs, dest_fname)
                     /\ writes' = writes \cup {Event("copy", idx, dest_fname)}
                     /\ Continue("copied")

\* ------------------------------------------------------------------------
\* main: end of the walk and the join loop (lines 215, 260-261)
\* ------------------------------------------------------------------------
MainEndWalk ==
  /\ pc = "walk"
  /\ idx > Len(library)
  /\ pc' = "join"
  /\ UNCHANGED <<fs, idx, threads, sema, joined, writes, invoked, outcome,
                 run, prevFailed>>
  /\ UNCHANGED <<flagVars, classVars, tagVars, walkVars>>

\* a join that does not wait
Joinable_NoWait(t) == TRUE

\* t.join() returns once the thread has ended, normally or by an exception
Joinable(t) == t.st \in Terminal

MainJoin ==
  /\ pc = "join"
  /\ IF joined = Len(threads)
     THEN pc' = "done" /\ UNCHANGED joined
     ELSE /\ Joinable(threads[joined + 1])
          /\ joined' = joined + 1
          /\ UNCHANGED pc
  /\ UNCHANGED <<fs, idx, threads, sema, writes, invoked, outcome, run,
                 prevFailed>>
  /\ UNCHANGED <<flagVars, classVars, tagVars, walkVars>>

\* ------------------------------------------------------------------------
\* transcode_file, one thread per started job (lines 173-205)
\* ------------------------------------------------------------------------
\* a pool that never blocks
CanAcquire_Unguarded(s) == TRUE

\* "with pool_sema": acquire blocks while no permit is free
CanAcquire(s) == s > 0

\* the permits after leaving the with block
Release(s) == s + 1

\* assert(dest.split('.')[-1] == 'mp3')
AssertionHolds(dest) == LastField(dest, ".") = S_mp3

SetSt(i, st) == [threads EXCEPT ![i].st = st]

Acquire(i) ==
  /\ threads[i].st = "pending"
  /\ CanAcquire(sema)
  /\ sema' = sema - 1
  /\ threads' = SetSt(i, "guarded")
  /\ UNCHANGED <<fs, pc, idx, joined, writes, invoked, outcome, run, prevFailed>>
  /\ UNCHANGED <<flagVars, classVars, tagVars, walkVars>>

\* the assertion, the dry-run return, the start of the encoder
Start(i) ==
  /\ threads[i].st = "guarded"
  /\ IF ~AssertionHolds(threads[i].dest)
     THEN /\ threads' = SetSt(i, "assert")
          /\ sema' = Release(sema)
          /\ UNCHANGED invoked
     ELSE IF dryrun
     THEN /\ threads' = SetSt(i, "returned")
          /\ sema' = Release(sema)
          /\ UNCHANGED invoked
     ELSE /\ threads' = SetSt(i, "encoding")
          /\ invoked' = [invoked EXCEPT ![threads[i].src] = @ + 1]
          /\ UNCHANGED sema
  /\ UNCHANGED <<fs, pc, idx, joined, writes, outcome, run, prevFailed>>
  /\ UNCHANGED <<flagVars, classVars, tagVars, walkVars>>

\* the exit code ignored
AfterEncoder_Ignored(result) == "tagging"

\* "if result != 0: return", else on to the tag repair
AfterEncoder(result) == IF result # 0 THEN "failed" ELSE "tagging"

\* subprocess.call(cmd) returns. ffmpeg -y writes dest; it cannot exit 0
\* when dest is a directory, and a failed run may leave a partial file.
EncoderExit(i, result, wrote) ==
  /\ threads[i].st = "encoding"
  /\ result = 0 => wrote
  /\ wrote => ~isdir(fs, threads[i].dest)
  /\ threads' = [threads EXCEPT ![i].st = AfterEncoder(result),
                                 ![i].result = result]
  /\ sema' = IF AfterEncoder(result) = "failed" THEN Release(sema) ELSE sema
  /\ IF wrote
     THEN /\ fs' = WriteFile(fs, threads[i].dest)
          /\ writes' = writes \cup {Event("encode", threads[i].src,
                                          threads[i].dest)}
     ELSE UNCHANGED <<fs, writes>>
  /\ UNCHANGED <<pc, idx, joined, invoked, outcome, run, prevFailed>>
  /\ UNCHANGED <<flagVars, classVars, tagVars, walkVars>>

\* ID3(dest), the repair loop and audiofile.save(); ok = FALSE is an
\* exception raised by the tag library
TagRepair(i, ok) ==
  /\ threads[i].st = "tagging"
  /\ threads' = SetSt(i, IF ok THEN "succeeded" ELSE "tagerror")
  /\ sema' = Release(sema)
  /\ writes' = IF ok
               THEN writes \cup {Event("tagsave", threads[i].src,
                                       threads[i].dest)}
               ELSE writes
  /\ UNCHANGED <<fs, pc, idx, joined, invoked, outcome, run, prevFailed>>
  /\ UNCHANGED <<flagVars, classVars, tagVars, walkVars>>

\* ------------------------------------------------------------------------
\* A second run of the program on the same inputs
\* ------------------------------------------------------------------------
Rerun ==
  /\ run = 1
  /\ pc \in {"done", "raised"}
  /\ \A i \in 1..Len(threads) : threads[i].st \in Terminal
  /\ run' = 2
  /\ prevFailed' = \E i \in 1..Len(threads) : threads[i].st = "failed"
  /\ pc' = "walk"
  /\ idx' = 1
  /\ threads' = <<>>
  /\ sema' = THREADPOOL_SIZE
  /\ joined' = 0
  /\ writes' = {}
  /\ invoked' = [i \in 1..Len(library) |-> 0]
  /\ outcome' = [i \in 1..Len(library) |-> "none"]
  /\ UNCHANGED fs
  /\ UNCHANGED <<flagVars, classVars, tagVars, walkVars>>

\* ------------------------------------------------------------------------
\* The pure functions, applied to drawn inputs
\* ------------------------------------------------------------------------
P_src == <<"/","l","/","a",".","f","l","a","c">>

Classify ==
  /\ cpc = "input"
  /\ cpc' = "done"
  /\ genreOut' = get_genre(audio)
  /\ levelOut' = get_level(audio)
  /\ subOut' = get_destination_subfolder(audio)
  /\ destOut' = IF get_destination_subfolder(audio).raised THEN <<>>
                ELSE DestFname(Destination,
                               get_destination_subfolder(audio).val,
                               P_src, transcode)
  /\ UNCHANGED audio
  /\ UNCHANGED <<flagVars, mainVars, tagVars, walkVars>>

Repair ==
  /\ tpc = "input"
  /\ tpc' = "done"
  /\ tagOut' = fix_ffmpeg_tag(tagIn)
  /\ UNCHANGED tagIn
  /\ UNCHANGED <<flagVars, mainVars, classVars, walkVars>>

\* ------------------------------------------------------------------------
\* GlobDirectoryWalker (lines 24-55)
\* ------------------------------------------------------------------------
\* the source tree: /l holds a.flac, the directories s and t and k, a
\* symlink to a directory; /l/s holds a.ogg and a directory s; /l/t is empty
Root == <<"/","l">>
N_s == <<"s">>
N_t == <<"t">>
N_k == <<"k">>
N_aflac == <<"a",".","f","l","a","c">>
N_aogg == <<"a",".","o","g","g">>
N_bmp3 == <<"b",".","m","p","3">>
N_zmp3 == <<"z",".","m","p","3">>

D_s == PathJoin(Root, N_s)
D_ss == PathJoin(D_s, N_s)
D_t == PathJoin(Root, N_t)
D_k == PathJoin(Root, N_k)

SourceDirs == {Root, D_s, D_ss, D_t}

\* what os.listdir returns for each directory when it succeeds
Listing ==
  (Root :> <<N_aflac, N_s, N_k, N_t>>) @@
  (D_s :> <<N_aogg, N_s>>) @@
  (D_ss :> <<N_bmp3>>) @@
  (D_t :> <<>>) @@
  (D_k :> <<N_zmp3>>)

SourceTree ==
  Tree(SourceDirs,
       {PathJoin(Root, N_aflac), PathJoin(D_s, N_aogg),
        PathJoin(D_ss, N_bmp3), PathJoin(D_k, N_zmp3)})
  @@ (D_k :> "link")

\* os.path.islink, and os.path.isdir, which follows a symlink
islink(t, p) == p \in DOMAIN t /\ t[p] = "link"
isdir_follow(t, p) == isdir(t, p) \/ islink(t, p)

S_star == <<"*">>
Patterns == {S_star, <<"*", ".", "m", "p", "3">>}

\* fnmatch.fnmatch(name, pat) for a pattern "*" followed by literal text
Fnmatch(name, pat) ==
  LET lit == Tail(pat)
  IN /\ Len(lit) <= Len(name)
     /\ SubSeq(name, Len(name) - Len(lit) + 1, Len(name)) = lit

\* __init__
WalkInit ==
  /\ pattern \in Patterns
  /\ broken \in SUBSET SourceDirs
  /\ stack = <<Root>>
  /\ files = <<>>
  /\ index = 0
  /\ directory = <<>>
  /\ wpc = "iter"
  /\ yielded = <<>>
  /\ listed = {}
  /\ failed = {}

WalkIdle ==
  /\ pattern = S_star
  /\ broken = {}
  /\ stack = <<>>
  /\ files = <<>>
  /\ index = 0
  /\ directory = <<>>
  /\ wpc = "idle"
  /\ yielded = <<>>
  /\ listed = {}
  /\ failed = {}

\* __getitem__, the else branch: files[index] exists; the name is joined to
\* the current directory, pushed when it is a directory and not a symlink,
\* and returned when it matches
WalkTake ==
  /\ wpc = "iter"
  /\ index < Len(files)
  /\ LET file == files[index + 1]
         fullname == PathJoin(directory, file)
     IN /\ index' = index + 1
        /\ stack' = IF isdir_follow(SourceTree, fullname)
                        /\ ~islink(SourceTree, fullname)
                     THEN Append(stack, fullname) ELSE stack
        /\ yielded' = IF Fnmatch(file, pattern)
                       THEN Append(yielded, fullname) ELSE yielded
  /\ UNCHANGED <<pattern, broken, files, directory, wpc, listed, failed>>
  /\ UNCHANGED <<flagVars, mainVars, classVars, tagVars>>

\* the stack after os.listdir(d) has raised: d was popped and stays popped
AfterListError_Retry(st, d) == Append(st, d)
AfterListError(st, d) == st

\* __getitem__, the except IndexError branch: files is exhausted. With an
\* empty stack the pop raises IndexError, which ends the iteration.
\* Otherwise directory and index are assigned before os.listdir is called,
\* so when it raises OSError they are already changed, files still holds
\* the earlier listing, and the outer loop goes on
WalkPop ==
  /\ wpc = "iter"
  /\ index >= Len(files)
  /\ IF Len(stack) = 0
     THEN /\ wpc' = "ended"
          /\ UNCHANGED <<stack, files, index, directory, listed, failed>>
     ELSE LET d == stack[Len(stack)]
              rest == SubSeq(stack, 1, Len(stack) - 1)
          IN /\ directory' = d
             /\ index' = 0
             /\ UNCHANGED wpc
             /\ IF d \in broken
                THEN /\ stack' = AfterListError(rest, d)
                     /\ failed' = failed \cup {d}
                     /\ UNCHANGED <<files, listed>>
                ELSE /\ stack' = rest
                     /\ files' = Listing[d]
                     /\ listed' = listed \cup {d}
                     /\ UNCHANGED failed
  /\ UNCHANGED <<pattern, broken, yielded>>
  /\ UNCHANGED <<flagVars, mainVars, classVars, tagVars>>

\* ------------------------------------------------------------------------
\* Specifications
\* ------------------------------------------------------------------------
MainInit ==
  /\ library \in Libraries
  /\ transcode \in BOOLEAN
  /\ overwrite \in BOOLEAN
  /\ dryrun \in BOOLEAN
  /\ fs0 \in InitialTrees
  /\ resolved = [i \in 1..Len(library) |-> Resolve(library[i], transcode)]
  /\ fs = fs0
  /\ pc = "walk"
  /\ idx = 1
  /\ threads = <<>>
  /\ sema = THREADPOOL_SIZE
  /\ joined = 0
  /\ writes = {}
  /\ invoked = [i \in 1..Len(library) |-> 0]
  /\ outcome = [i \in 1..Len(library) |-> "none"]
  /\ run = 1
  /\ prevFailed = FALSE

MainIdle ==
  /\ library = <<>>
  /\ overwrite = FALSE
  /\ dryrun = FALSE
  /\ fs0 = Tree({Destination}, {})
  /\ resolved = <<>>
  /\ fs = fs0
  /\ pc = "idle"
  /\ idx = 1
  /\ threads = <<>>
  /\ sema = THREADPOOL_SIZE
  /\ joined = 0
  /\ writes = {}
  /\ invoked = <<>>
  /\ outcome = <<>>
  /\ run = 1
  /\ prevFailed = FALSE

ClassIdle ==
  /\ audio = None
  /\ cpc = "idle"
  /\ genreOut = Raised
  /\ levelOut = <<>>
  /\ subOut = Raised
  /\ destOut = <<>>

TagIdle ==
  /\ tagIn = <<>>
  /\ tpc = "idle"
  /\ tagOut = <<>>

Init == MainInit /\ ClassIdle /\ TagIdle /\ WalkIdle

Next ==
  \/ MainStep
  \/ MainDispatch
  \/ MainEndWalk
  \/ MainJoin
  \/ \E i \in 1..Len(threads) : Acquire(i)
  \/ \E i \in 1..Len(threads) : Start(i)
  \/ \E i \in 1..Len(threads), result \in {0, 1}, wrote \in BOOLEAN :
       EncoderExit(i, result, wrote)
  \/ \E i \in 1..Len(threads), ok \in BOOLEAN : TagRepair(i, ok)

\* one run of main
Spec == Init /\ [][Next]_vars

\* main run twice in sequence on the same inputs, with overwrite off
TwiceInit ==
  /\ MainInit
  /\ Len(library) <= MaxFiles
  /\ ~overwrite
  /\ ClassIdle /\ TagIdle /\ WalkIdle

TwiceNext == Next \/ Rerun

TwiceSpec == TwiceInit /\ [][TwiceNext]_vars

\* the classifier and the path resolver on drawn metadata
GenreAlphabet == {"r", "R", "/", ",", ".", " "}
Strings(A, n) == UNION {[1..k -> A] : k \in 0..n}

GenreValues ==
  {[list |-> TRUE, text |-> <<>>]} \cup
  {[list |-> l, text |-> <<g>>] :
     l \in BOOLEAN, g \in Strings(GenreAlphabet, MaxGenreLen)}

\* comments: up to MaxTokens tokens joined by commas
Tokens ==
  { <<"l","2">>,
    <<"l","3","-","l","4">>,
    <<" ","l","5">>,
    <<"l","6","7">>,
    <<"x">>,
    <<>>,
    <<"L","8">>,
    <<"l","9","-","l">> }

RECURSIVE JoinTokens(_)
JoinTokens(ts) ==
  IF Len(ts) = 1 THEN ts[1]
  ELSE ts[1] \o <<",">> \o JoinTokens(Tail(ts))

CommentTexts ==
  {JoinTokens(ts) : ts \in UNION {[1..k -> Tokens] : k \in 1..MaxTokens}}

SmallComments == {<<"l","2">>, <<"l","3","-","l","4">>, <<"x">>}

\* a Vorbis comment value is a list, an ID3 frame is not
Value(k, texts) == [list |-> (k \in {"genre", "description"}), text |-> texts]

CommentValues ==
  {[list |-> TRUE, text |-> <<c>>] :
     c \in {<<"l","2">>, <<"x",",","l","1","-","l","2">>, <<"x">>}}

CommentViews ==
  {k :> Value(k, <<c>>) : k \in {"description", "COMM::Pur", "TCON"},
                          c \in CommentTexts} \cup
  {k :> Value(k, <<>>) : k \in {"description", "COMM::Pur", "TCON"}} \cup
  {(p[1] :> Value(p[1], t1)) @@ (p[2] :> Value(p[2], <<c2>>)) :
     p \in {<<"description", "COMM::Pur">>, <<"description", "TCON">>,
            <<"COMM::Pur", "TCON">>},
     t1 \in {<<>>} \cup {<<c>> : c \in SmallComments}, c2 \in SmallComments}

\* both genre keys present, as a list, an empty list or a frame
GenrePairViews ==
  {("genre" :> g1) @@ ("TCON" :> g2) :
     g1 \in {[list |-> TRUE, text |-> <<>>],
             [list |-> TRUE, text |-> << <<"r">> >>],
             [list |-> FALSE, text |-> << <<"r">> >>]},
     g2 \in {[list |-> TRUE, text |-> << <<"r", "r">> >>],
             [list |-> FALSE, text |-> << <<"r", "r">> >>]}}

Views ==
  {EmptyView} \cup
  {k :> g : k \in {"genre", "TCON"}, g \in GenreValues} \cup
  {("genre" :> g) @@ ("description" :> c) :
     g \in GenreValues, c \in CommentValues} \cup
  CommentViews \cup GenrePairViews

ClassifyInit ==
  /\ MainIdle
  /\ transcode \in BOOLEAN
  /\ audio \in {None} \cup {Some(v) : v \in Views}
  /\ cpc = "input"
  /\ genreOut = Raised
  /\ levelOut = <<>>
  /\ subOut = Raised
  /\ destOut = <<>>
  /\ TagIdle /\ WalkIdle

ClassifyNext == Classify

ClassifySpec == ClassifyInit /\ [][ClassifyNext]_vars

\* the tag repair on drawn tag lists
TagAlphabet == {"a", "b", ";"}

TagLists ==
  {<<t>> : t \in Strings(TagAlphabet, MaxTagLen)} \cup
  {<<t, <<"z">> >> : t \in Strings(TagAlphabet, MaxTagLen)}

TagInit ==
  /\ MainIdle
  /\ transcode = FALSE
  /\ ClassIdle
  /\ tagIn \in TagLists
  /\ tpc = "input"
  /\ tagOut = <<>>
  /\ WalkIdle

TagNext == Repair

TagSpec == TagInit /\ [][TagNext]_vars

\* one run of main under fair scheduling, with overwrite off, on the album
\* and on each single file
FairInit ==
  /\ MainInit
  /\ library \in {Album} \cup {<<e>> : e \in Catalogue}
  /\ ~overwrite
  /\ ClassIdle /\ TagIdle /\ WalkIdle

\* No step of main or of a job can be taken twice, so every behaviour that
\* keeps taking the steps it can take gives every thread its next statement
\* and ends every started encoder
FairSpec == FairInit /\ [][Next]_vars /\ WF_vars(Next)

\* one walk of the source tree, for each pattern and each set of
\* directories that cannot be listed
WalkSpecInit ==
  /\ MainIdle
  /\ transcode = FALSE
  /\ ClassIdle /\ TagIdle
  /\ WalkInit

WalkNext == WalkTake \/ WalkPop

WalkSpec == WalkSpecInit /\ [][WalkNext]_vars

\* the for loop of main asks for the next item until the iteration ends
WalkFairSpec == WalkSpec /\ WF_vars(WalkNext)

\* ------------------------------------------------------------------------
\* Properties
\* ------------------------------------------------------------------------
ThreadIds == 1..Len(threads)
InsideCount == Cardinality({i \in ThreadIds : threads[i].st \in Inside})
Walked(i) == outcome[i] # "none"
WritesOf(i) == {w \in writes : w.src = i}

\* C1: at most THREADPOOL_SIZE transcode jobs are inside the permit-guarded
\* section of transcode_file at any time, whatever the number of jobs and
\* the interleaving of their threads.
C1_PermitBound == InsideCount <= THREADPOOL_SIZE

\* the pool is exhausted while another job waits for a permit
C1_Witness ==
  /\ InsideCount = THREADPOOL_SIZE
  /\ \E i \in ThreadIds : threads[i].st = "pending"
  /\ \E i \in ThreadIds : threads[i].st = "tagging"

\* C2: when main has returned, no transcode job it started is still pending
\* or running.
C2_DoneAfterJobs ==
  pc = "done" => \A i \in ThreadIds : threads[i].st \in Terminal

\* main has returned after joining jobs that ended differently
C2_Witness ==
  /\ pc = "done"
  /\ \E i, j \in ThreadIds :
       threads[i].st = "failed" /\ threads[j].st = "succeeded"

\* C3: with dryrun set no filesystem write occurs: nothing is created,
\* copied, encoded or saved, and the destination tree stays as it was.
C3_DryRunWritesNothing ==
  dryrun => writes = {} /\ fs = fs0

C5_UnsupportedSkipped ==
  \A i \in 1..Len(library) :
    (Walked(i) /\ ~get_audiofile(library[i]).some) =>
       /\ outcome[i] = "skip-unsupported"
       /\ WritesOf(i) = {}
       /\ \A j \in ThreadIds : threads[j].src # i

\* C6: every transcode job main starts has a destination whose text after
\* the last dot is mp3, so the assertion of transcode_file holds.
C6_JobsEndInMp3 ==
  \A j \in ThreadIds : AssertionHolds(threads[j].dest)

\* a component of the directory of file i, below the destination root,
\* exists and is not a directory
HasConflict(i) ==
  \E c \in ({DestPathOf(i)} \cup Ancestors(DestPathOf(i))) :
    /\ Len(c) > Len(Destination)
    /\ exists(fs, c) /\ ~isdir(fs, c)

\* C7: a file whose destination directory has a non-directory component is
\* skipped with a warning, nothing is written for it, and main is not
\* ended by an error.
C7_ConflictSkipped ==
  \A i \in 1..Len(library) :
    (Walked(i) /\ HasConflict(i)) =>
       outcome[i] = "skip-conflict" /\ WritesOf(i) = {}

\* C8: a job whose encoder exited non-zero ends as failed and stays so, no
\* tag is saved on its destination, the encoder ran once for its file, it
\* holds no permit, and the step in which it fails changes neither main nor
\* any other job.
C8_FailedState ==
  \A i \in ThreadIds :
    threads[i].result > 0 =>
       /\ threads[i].st = "failed"
       /\ \A w \in WritesOf(threads[i].src) : w.op # "tagsave"
       /\ invoked[threads[i].src] = 1
       /\ sema = THREADPOOL_SIZE - InsideCount

C8_FailedStep ==
  \A i \in ThreadIds :
    (threads[i].result <= 0 /\ threads'[i].result > 0) =>
       /\ pc' = pc /\ idx' = idx /\ joined' = joined
       /\ Len(threads') = Len(threads)
       /\ \A j \in ThreadIds \ {i} : threads'[j] = threads[j]

\* C8: an encoder failure ends its job as failed, without tag repair or a
\* second invocation, and leaves main and every other job as they were.
C8_EncoderFailure == [] C8_FailedState /\ [][C8_FailedStep]_vars

\* a job has failed and main has returned with another job succeeded
C8_Witness ==
  /\ pc = "done"
  /\ \E i, j \in ThreadIds :
       /\ threads[i].result = 1 /\ threads[i].st = "failed"
       /\ threads[j].result = 0 /\ threads[j].st = "succeeded"

\* C9: every destination main computes is root/genre/level/filename, with
\* genre and level each one non-empty segment that is neither "." nor "..".
UnsafeSegments == {<<>>, <<".">>, <<".", ".">>}

C9_TwoLevelsBelowRoot ==
  (cpc = "done" /\ ~subOut.raised) =>
     LET rel == Split(Drop(destOut, Len(Destination) + 1), Slash)
     IN /\ StartsWith(destOut, Destination \o <<Slash>>)
        /\ Len(rel) = 3
        /\ \A k \in 1..Len(rel) : rel[k] \notin UnsafeSegments

\* tag has the form X;X
IsDoubled(tag) ==
  /\ Len(tag) % 2 = 1
  /\ tag[(Len(tag) + 1) \div 2] = ";"
  /\ SubSeq(tag, 1, (Len(tag) - 1) \div 2)
       = SubSeq(tag, (Len(tag) + 3) \div 2, Len(tag))

\* C10: fix_ffmpeg_tag returns [X] when the first value is X;X and the
\* input list unchanged when it is not.
C10_TagRepair ==
  tpc = "done" =>
     IF IsDoubled(tagIn[1])
     THEN tagOut = <<SubSeq(tagIn[1], 1, (Len(tagIn[1]) - 1) \div 2)>>
     ELSE tagOut = tagIn

\* the two level forms, l<digit> and l<digit>-l<digit>
LevelTokens ==
  {<<"l", d>> : d \in Digits} \cup
  {<<"l", d, "-", "l", e>> : d \in Digits, e \in Digits}

\* the first trimmed token of a comment that is a level, else "Unknown"
LevelOfComment(comment) ==
  LET toks == Split(comment, ",")
      hits == {i \in 1..Len(toks) : Strip(toks[i]) \in LevelTokens}
  IN IF hits = {} THEN S_Unknown ELSE Strip(toks[Min(hits)])

PresentCommentKeys(v) ==
  {i \in 1..Len(CommentKeys) : CommentKeys[i] \in DOMAIN v}

ValuedCommentKeys(v) ==
  {i \in PresentCommentKeys(v) : Len(v[CommentKeys[i]].text) > 0}

\* the first element of the first key present; the default text when no key
\* is present or that key has no first element
FirstPresentComment(v) ==
  IF PresentCommentKeys(v) = {} THEN S_NoComment
  ELSE LET t == v[CommentKeys[Min(PresentCommentKeys(v))]].text
       IN IF Len(t) = 0 THEN S_NoComment ELSE t[1]

\* the first element of the first key present that has one
FirstValuedComment(v) ==
  IF ValuedCommentKeys(v) = {} THEN S_NoComment
  ELSE v[CommentKeys[Min(ValuedCommentKeys(v))]].text[1]

\* C11 (as stated): the level is the first trimmed token of the comment that
\* is exactly l<digit> or l<digit>-l<digit>, "Unknown" when there is none,
\* and the comment is the first element of the first key present among
\* description, COMM::Pur, TCON.
C11_LevelOfFirstPresentKey ==
  (cpc = "done" /\ audio.some) =>
     levelOut = LevelOfComment(FirstPresentComment(audio.view))

\* C11 (amended): the same, with the comment taken from the first key
\* present whose value list has a first element; a present key with an empty
\* list is passed over.
C11_LevelOfFirstValuedKey ==
  (cpc = "done" /\ audio.some) =>
     levelOut = LevelOfComment(FirstValuedComment(audio.view))

\* description is present and empty, and the level came from TCON
C11_Witness ==
  /\ cpc = "done" /\ audio.some
  /\ DOMAIN audio.view = {"description", "TCON"}
  /\ audio.view["description"].text = <<>>
  /\ audio.view["TCON"].text = << <<"l","3","-","l","4">> >>
  /\ levelOut = <<"l","3","-","l","4">>

\* a second token is the first level of a two-token comment
C11_WitnessSecondToken ==
  /\ cpc = "done" /\ audio.some
  /\ DOMAIN audio.view = {"COMM::Pur"}
  /\ audio.view["COMM::Pur"].text = << <<"l","6","7",","," ","l","5">> >>
  /\ levelOut = <<"l","5">>

\* title-cased, trimmed, cut at the first "/" or "," and trimmed again
GenreOfValue(x) ==
  LET t == Strip(Title(x))
      cuts == {i \in 1..Len(t) : t[i] \in {",", "/"}}
  IN Strip(IF cuts = {} THEN t ELSE SubSeq(t, 1, Min(cuts) - 1))

PresentGenreKeys(v) ==
  {i \in 1..Len(GenreKeys) : GenreKeys[i] \in DOMAIN v}

ListGenreKeys(v) ==
  {i \in PresentGenreKeys(v) : v[GenreKeys[i]].list}

C12_WitnessSlash ==
  /\ cpc = "done" /\ audio.some
  /\ DOMAIN audio.view = {"genre"}
  /\ audio.view["genre"] = [list |-> TRUE, text |-> << <<"r", "/", "R">> >>]
  /\ genreOut = Ok(<<"R">>)

\* C13: the classifier returns a genre and a level for every metadata view,
\* a view whose genre or comment key is missing or holds an empty list
\* included, and never raises.
C13_ClassifierTotal ==
  cpc = "done" => (~genreOut.raised /\ ~subOut.raised)

\* C14: with overwrite not set, a transcode job whose destination exists
\* when main dispatches it, after the discovery-time check, does not run the
\* encoder.
C14_RecheckedAtDispatch ==
  ~overwrite =>
     \A i \in ThreadIds : threads[i].seen => invoked[threads[i].src] = 0

\* C15: with overwrite not set, each destination path is written (copied or
\* encoded to) by at most one job of the run.
C15_OneWriterPerDestination ==
  ~overwrite =>
     \A w1 \in writes, w2 \in writes :
        (/\ w1.op \in {"copy", "encode"} /\ w2.op \in {"copy", "encode"}
         /\ w1.path = w2.path) => w1.src = w2.src

Range(f) == {f[i] : i \in DOMAIN f}

\* the regular files under d, reached through directories that are not
\* symlinks
RECURSIVE FilesUnder(_)
FilesUnder(d) ==
  LET paths == {PathJoin(d, Listing[d][i]) : i \in DOMAIN Listing[d]}
  IN {p \in paths : isfile(SourceTree, p)} \cup
     UNION {FilesUnder(p) : p \in {q \in paths : isdir(SourceTree, q)}}

\* C16: when every listing succeeds, the walk with pattern "*" yields the
\* regular files reachable from the root without passing through a
\* symlinked directory, each once, and no directory path.
C16_YieldsExactlyFiles ==
  (pattern = S_star /\ broken = {} /\ wpc # "idle") =>
     /\ \A y \in Range(yielded) : isfile(SourceTree, y)
     /\ \A i \in DOMAIN yielded, j \in DOMAIN yielded :
           yielded[i] = yielded[j] => i = j
     /\ wpc = "ended" => Range(yielded) = FilesUnder(Root)

C17_Dropped == \A d \in failed : d \notin Range(stack)

C18_YieldsListedNames ==
  \A y \in Range(yielded) :
     \E d \in listed : \E i \in DOMAIN Listing[d] : y = PathJoin(d, Listing[d][i])

\* every job has finished, the pool is full and main has returned
C19_AllDone ==
  /\ pc = "done"
  /\ sema = THREADPOOL_SIZE
  /\ \A i \in ThreadIds : threads[i].st \in Terminal

\* C19: under fair scheduling, with every encoder invocation terminating,
\* every dispatched transcode job acquires a permit and finishes, the pool
\* returns to full capacity and main returns.
C19_EventuallyAllDone == <>C19_AllDone

====
